---- MODULE Spec2Model ----
(***************************************************************************)
(* Model of YahooSession (src/yahoofantasysession.py): construction from   *)
(* the credentials and authorization files, and get(url) through the       *)
(* OAuth2 session with the file cache mounted on it.                       *)
(*                                                                         *)
(* Time is counted in hours.  request_delay is counted in milliseconds.    *)
(***************************************************************************)
EXTENDS Integers, Sequences, FiniteSets, TLC

(* ------------------------------ bounds --------------------------------- *)
MaxCalls == 2        \* get() calls explored
MaxTicks == 1        \* clock advances explored
MaxTokens == 2       \* tokens the token endpoint issues
MaxBuilds == 2       \* YahooSession() constructions explored

(* ------------------------- program constants --------------------------- *)
DefaultRequestDelay == 100        \* self.request_delay = 0.1 (seconds), in ms
DefaultCacheExpireHours == 168    \* self.cache_expire_hours = 168

NoOpt == 0 - 1                    \* the keyword argument is not given

\* what the keyword arguments of the constructor are drawn from
Kwargs ==
  {[request_delay |-> NoOpt, cache_expire_hours |-> NoOpt],
   [request_delay |-> 0, cache_expire_hours |-> 0],
   [request_delay |-> 250, cache_expire_hours |-> 1]}
\* what the operator types into the credentials file
Ids == {"", "id"}
Secrets == {"", "secret"}
\* clock advances, in hours
Jumps == {1, 167}
\* validity, in hours, of a token issued by the token endpoint
TokenLife == 1

URLs == {"https://y", "https://z/"}
Bodies == {"b1", "b2"}

(* ------------------------- pure helpers -------------------------------- *)
\* python truthiness of kwargs.get(name): absent (None) and 0 are falsy
Truthy(v) == v # NoOpt /\ v # 0

\* the URL of the prepared request (requests adds the missing "/" path);
\* it is r.url and it is what the cache adapter keys its entries by
PreparedUrl(url) == IF url = "https://y" THEN "https://y/" ELSE url

\* FileCache.encode(url): a digest of the url exactly as passed to get()
encode(url) == IF url = "https://y" THEN "sha224:1f" ELSE "sha224:c7"

CacheKeys == {PreparedUrl(u) : u \in URLs}

\* a file that does not exist
NoFile ==
  [exists |-> FALSE, client_id |-> "", client_secret |-> "",
   callback_url |-> ""]
\* the template written by _load_credentials when the file is missing
TemplateCredentials ==
  [exists |-> TRUE, client_id |-> "", client_secret |-> "",
   callback_url |-> "oob"]

\* a credentials file the operator has filled in
FilledCredentials ==
  [exists |-> TRUE, client_id |-> "id", client_secret |-> "secret",
   callback_url |-> "oob"]

\* tokens: id 0 stands for "no token" ({} in memory, no file on disk)
NoToken == [id |-> 0, expires_at |-> 0]

\* cache entries: the stored response with the Expires stamp it was given
NoEntry ==
  [present |-> FALSE, status |-> 0, etag |-> FALSE, body |-> "",
   stored |-> 0, expires |-> 0]

NoPrevCall == [set |-> FALSE, at |-> 0, body |-> "", stored |-> FALSE]
NoPrev == [u \in URLs |-> NoPrevCall]

NoCall ==
  [kind |-> "none", url |-> "", at |-> 0,
   outcome |-> "", responded |-> FALSE, from_cache |-> FALSE, status |-> 0,
   etag |-> FALSE, body |-> "", resolved |-> "", network |-> 0,
   delayed |-> FALSE, hadEntry |-> FALSE, entryStored |-> 0,
   entryExpires |-> 0, sent |-> FALSE, refreshed |-> FALSE, tokenUsed |-> 0,
   tokenOnDisk |-> 0, prev |-> NoPrevCall]

VARIABLES
  now,               \* wall clock, hours
  ticks,             \* clock advances so far
  credentials_file,  \* .yahoo_fantasy_credentials.json
  auth_file,         \* .yahoo_fantasy_auth_token.json: the token in it
  web_cache,         \* FileCache(web_cache_dir): cache key -> entry
  issued,            \* tokens issued by the token endpoint so far
  pc,                \* position of the constructor / life of the object
  builds,            \* constructions started so far
  kwargs,            \* keyword arguments of the running construction
  request_delay, cache_expire_hours,
  client_id, client_secret, callback_url,
  auth_token_dict,   \* self.auth_token_dict
  token,             \* self.s.token
  urls, cached_urls,
  error,             \* the exception that ended the constructor, if any
  steps,             \* what the running construction did, in order
  credUse,           \* every use of the credentials: step, id, secret
  calls,             \* get() calls so far
  delays,            \* sleep(self.request_delay) performed so far
  fetched,           \* responses the network delivered to get() so far
  obtained,          \* r.url of every response get() obtained, in order
  prev,              \* per url: last body this session fetched and returned
  last               \* what the last get() of this session did

vars == <<now, ticks, credentials_file, auth_file, web_cache, issued, pc,
          builds, kwargs, request_delay, cache_expire_hours, client_id,
          client_secret, callback_url, auth_token_dict, token, urls,
          cached_urls, error, steps, credUse, calls, delays, fetched,
          obtained, prev, last>>

disk == <<credentials_file, auth_file, web_cache, issued>>
clock == <<now, ticks>>
options == <<kwargs, request_delay, cache_expire_hours>>
credentials == <<client_id, client_secret, callback_url>>
logs == <<urls, cached_urls>>
ghosts == <<calls, delays, fetched, obtained, prev, last>>

\* The process starts in a directory where the credentials file is missing
\* or was already filled in; there is no token file and the cache is empty.
Init ==
  /\ now = 0
  /\ ticks = 0
  /\ credentials_file \in {NoFile, FilledCredentials}
  /\ auth_file = NoToken
  /\ web_cache = [k \in CacheKeys |-> NoEntry]
  /\ issued = 0
  /\ pc = "none"
  /\ builds = 0
  /\ kwargs = [request_delay |-> NoOpt, cache_expire_hours |-> NoOpt]
  /\ request_delay = DefaultRequestDelay
  /\ cache_expire_hours = DefaultCacheExpireHours
  /\ client_id = ""
  /\ client_secret = ""
  /\ callback_url = "oob"
  /\ auth_token_dict = NoToken
  /\ token = NoToken
  /\ urls = <<>>
  /\ cached_urls = {}
  /\ error = ""
  /\ steps = <<>>
  /\ credUse = {}
  /\ calls = 0
  /\ delays = 0
  /\ fetched = 0
  /\ obtained = <<>>
  /\ prev = NoPrev
  /\ last = NoCall

(* --------------------------- environment ------------------------------- *)
\* The operator edits the credentials file, as the error message of a
\* failed construction asks.
EditCredentials(id, secret) ==
  /\ pc = "failed"
  /\ builds < MaxBuilds
  /\ credentials_file.exists
  /\ credentials_file' =
       [credentials_file EXCEPT !.client_id = id, !.client_secret = secret]
  /\ UNCHANGED <<auth_file, web_cache, issued, clock, pc, builds, options,
                 credentials, auth_token_dict, token, logs, error, steps,
                 credUse, ghosts>>

\* Time passes between two operations.  Only the time between two steps that
\* read the clock matters, so the clock is advanced while a session is ready.
Tick(d) ==
  /\ pc = "ready"
  /\ ticks < MaxTicks
  /\ calls < MaxCalls
  /\ now' = now + d
  /\ ticks' = ticks + 1
  /\ UNCHANGED <<disk, pc, builds, options, credentials, auth_token_dict,
                 token, logs, error, steps, credUse, ghosts>>

\* The process that owns the session ends; the files stay.
Exit ==
  /\ pc \in {"ready", "failed"}
  /\ builds < MaxBuilds
  /\ calls < MaxCalls
  /\ pc' = "none"
  /\ UNCHANGED <<disk, clock, builds, options, credentials, auth_token_dict,
                 token, logs, error, steps, credUse, ghosts>>

(* --------------------------- construction ------------------------------ *)
\* variant: the missing file is reported but no template is written
LoadCredentialsWritesNothing(file) == file

\* _load_credentials, the file it leaves behind
LoadCredentialsWrites(file) ==
  IF ~file.exists THEN TemplateCredentials ELSE file

\* variant: the assert on client_secret is missing
LoadCredentialsOutcomeUncheckedSecret(file) ==
  IF ~file.exists THEN "Exception"
  ELSE IF file.client_id = "" THEN "AssertionError"
  ELSE "ok"

\* _load_credentials, how it ends
LoadCredentialsOutcome(file) ==
  IF ~file.exists THEN "Exception"
  ELSE IF file.client_id = "" THEN "AssertionError"
  ELSE IF file.client_secret = "" THEN "AssertionError"
  ELSE "ok"

\* __init__ up to and including self._load_credentials().  The fields are
\* assigned one by one, each before its assert, so a failing assert leaves
\* the earlier assignments in place.
Construct(kw) ==
  /\ pc = "none"
  /\ builds < MaxBuilds
  /\ builds' = builds + 1
  /\ kwargs' = kw
  /\ request_delay' = IF Truthy(kw.request_delay) THEN kw.request_delay
                      ELSE DefaultRequestDelay
  /\ cache_expire_hours' = IF Truthy(kw.cache_expire_hours)
                           THEN kw.cache_expire_hours
                           ELSE DefaultCacheExpireHours
  /\ urls' = <<>>
  /\ cached_urls' = {}
  /\ auth_token_dict' = NoToken
  /\ token' = NoToken
  /\ obtained' = <<>>
  /\ prev' = NoPrev
  /\ last' = NoCall
  /\ credentials_file' = LoadCredentialsWrites(credentials_file)
  /\ LET out == LoadCredentialsOutcome(credentials_file)
         f == credentials_file
     IN /\ client_id' = IF f.exists THEN f.client_id ELSE ""
        /\ client_secret' =
             IF f.exists /\ f.client_id # "" THEN f.client_secret ELSE ""
        /\ callback_url' = IF out = "ok" THEN f.callback_url ELSE "oob"
        /\ error' = IF out = "ok" THEN "" ELSE out
        /\ pc' = IF out = "ok" THEN "credentials" ELSE "failed"
        /\ steps' = <<"load_credentials">>
  /\ UNCHANGED <<auth_file, web_cache, issued, clock, credUse, calls, delays,
                 fetched>>

\* _get_new_auth_token's token endpoint: the token a successful exchange
\* or refresh yields
IssueToken == [id |-> issued + 1, expires_at |-> now + TokenLife]

\* self._load_authorization(), with _get_new_auth_token() when the file is
\* missing; codeOk says whether the token endpoint accepts the code typed in
LoadAuthorization(codeOk) ==
  /\ pc = "credentials"
  /\ IF auth_file = NoToken
     THEN /\ credUse' = credUse \cup
               ({[step |-> "authorization_url", id |-> client_id,
                  secret |-> client_secret]} \cup
                {[step |-> "fetch_token", id |-> client_id,
                  secret |-> client_secret]})
          /\ IF codeOk /\ issued < MaxTokens
             THEN /\ issued' = issued + 1
                  /\ auth_file' = IssueToken
                  /\ auth_token_dict' = IssueToken
                  /\ steps' = steps \o <<"authorization_url", "fetch_token",
                                         "write_auth_file", "read_auth_file">>
                  /\ pc' = "authorization"
                  /\ error' = ""
             ELSE /\ steps' = steps \o <<"authorization_url", "fetch_token">>
                  /\ pc' = "failed"
                  /\ error' = "OAuth2Error"
                  /\ UNCHANGED <<issued, auth_file, auth_token_dict>>
     ELSE /\ auth_token_dict' = auth_file
          /\ steps' = steps \o <<"read_auth_file">>
          /\ pc' = "authorization"
          /\ UNCHANGED <<issued, auth_file, credUse, error>>
  /\ UNCHANGED <<credentials_file, web_cache, clock, builds, options,
                 credentials, token, logs, ghosts>>

\* self.s = None; self._load_session()
LoadSession ==
  /\ pc = "authorization"
  /\ token' = auth_token_dict
  /\ steps' = steps \o <<"load_session">>
  /\ pc' = "ready"
  /\ credUse' = credUse \cup {[step |-> "load_session", id |-> client_id,
                                secret |-> client_secret]}
  /\ UNCHANGED <<disk, clock, builds, options, credentials, auth_token_dict,
                 logs, error, ghosts>>

(* ------------------------- the HTTP layer ------------------------------ *)
\* what the server answers: status, whether the response carries an ETag
\* header, and the body; every answer carries a Date header.  304 is only
\* sent in answer to a conditional request.
Statuses == {200, 204, 300, 404}
NotModified == [status |-> 304, etag |-> TRUE, body |-> ""]
Responses ==
  {r \in [status : Statuses, etag : BOOLEAN, body : Bodies \cup {""}] :
      /\ (r.status = 204) <=> (r.body = "")
      /\ r.status # 200 \/ r.etag => r.body \in {"", "b1"}
      /\ r.status \in {204, 300} => ~r.etag}
NetOutcomes == Responses \cup {NotModified}

\* CacheControlAdapter(...): statuses the cache controller stores
CacheableStatuses == {200, 203, 300, 301, 308}

\* the cache controller stores a response of a cacheable status, once the
\* heuristic has stamped its Expires header
Cacheable(resp) == resp.status \in CacheableStatuses

\* variant: the heuristic is given no hours, entries expire as stored
StampWithoutHours(resp, t, hours) ==
  [present |-> TRUE, status |-> resp.status, etag |-> resp.etag,
   body |-> resp.body, stored |-> t, expires |-> t]

\* heuristic=ExpiresAfter(hours=...): the entry as stored at time t
Stamp(resp, t, hours) ==
  [present |-> TRUE, status |-> resp.status, etag |-> resp.etag,
   body |-> resp.body, stored |-> t, expires |-> t + hours]

\* variant: an entry is still served at the very end of its window
FreshInclusive(e, t) == e.present /\ t <= e.expires

\* the cache controller serves an entry while its freshness lifetime
\* (Expires - Date) exceeds its age (now - Date)
Fresh(e, t) == e.present /\ t < e.expires

\* the OAuth2 client refuses a token whose expires_at is in the past
TokenExpired(tok, t) == tok.expires_at < t

\* variant: the token updater does not write the file
auth_file_saver_skipped(file, token_dict) == file

\* _auth_file_saver(token_dict): the authorization file after the call
auth_file_saver(file, token_dict) == token_dict

\* variant: the assert comes after raise_for_status()
EtagAssertAfterStatus(r) == r.etag /\ r.status < 400

\* assert r.headers.get("etag") == None
EtagAssertFails(r) == r.etag

\* if self.request_delay and not r.from_cache: sleep(self.request_delay)
Sleeps(delay, from_cache) == delay # 0 /\ ~from_cache

\* variant: only server errors raise
RaisesForServerError(status) == 500 <= status /\ status < 600

\* r.raise_for_status(): raises for a 4xx or 5xx status
RaisesForStatus(status) == 400 <= status /\ status < 600

(* ------------------------------- get ----------------------------------- *)
\* get(url, return_object): refreshOk is the token endpoint's answer to a
\* refresh, net the server's answer to the request if one is sent.  Both
\* values of return_object hand the same response r to the caller, as r or
\* as r.text.
Get(url, refreshOk, net) ==
  /\ pc = "ready"
  /\ calls < MaxCalls
  /\ calls' = calls + 1
  /\ net = NotModified => web_cache[PreparedUrl(url)].etag
  /\ LET key == PreparedUrl(url)
         e == web_cache[key]
         expired == TokenExpired(token, now)
         refreshed == expired /\ refreshOk /\ issued < MaxTokens
         tokenError == expired /\ ~refreshed
         hit == Fresh(e, now)
         conditional == e.present /\ ~hit /\ e.etag
         \* a stale entry without an ETag is deleted by the lookup
         looked == IF e.present /\ ~hit /\ ~e.etag THEN NoEntry ELSE e
         revalidated == ~hit /\ conditional /\ net = NotModified
         responded == ~tokenError
         from_cache == hit \/ revalidated
         r == IF hit THEN e
              ELSE IF revalidated
                   THEN [e EXCEPT !.status = 200,
                                  !.expires = now + cache_expire_hours]
                   ELSE Stamp(net, now, cache_expire_hours)
         entry == IF hit THEN e
                  ELSE IF revalidated THEN r
                  ELSE IF Cacheable(net) THEN r
                  ELSE looked
         asserted == responded /\ EtagAssertFails(r)
         slept == responded /\ ~asserted /\ Sleeps(request_delay, from_cache)
         logged == responded /\ ~asserted
         outcome == IF tokenError THEN "TokenError"
                    ELSE IF asserted THEN "AssertionError"
                    ELSE IF RaisesForStatus(r.status) THEN "HTTPError"
                    ELSE "returned"
         returned == outcome = "returned"
     IN /\ credUse' = credUse \cup
             {[step |-> st, id |-> client_id, secret |-> client_secret] :
                st \in (IF expired THEN {"refresh_token"} ELSE {}) \cup
                       (IF tokenError \/ hit THEN {} ELSE {"get"})}
        /\ issued' = IF refreshed THEN issued + 1 ELSE issued
        /\ token' = IF refreshed THEN IssueToken ELSE token
        /\ auth_file' = IF refreshed
                        THEN auth_file_saver(auth_file, IssueToken)
                        ELSE auth_file
        /\ web_cache' = IF tokenError THEN web_cache
                        ELSE [web_cache EXCEPT ![key] = entry]
        /\ delays' = IF slept THEN delays + 1 ELSE delays
        /\ fetched' = IF responded /\ ~from_cache THEN fetched + 1
                      ELSE fetched
        /\ cached_urls' = IF logged /\ ~from_cache
                          THEN {c \in cached_urls : c[1] # encode(url)}
                               \cup {<<encode(url), key>>}
                          ELSE cached_urls
        /\ urls' = IF logged THEN Append(urls, key) ELSE urls
        /\ obtained' = IF responded THEN Append(obtained, key) ELSE obtained
        /\ prev' = IF returned /\ ~from_cache
                   THEN [prev EXCEPT ![url] =
                           [set |-> TRUE, at |-> now, body |-> r.body,
                            stored |-> Cacheable(net)]]
                   ELSE prev
        /\ last' =
             [kind |-> "get", url |-> url, at |-> now, outcome |-> outcome, responded |-> responded,
              from_cache |-> responded /\ from_cache,
              status |-> IF responded THEN r.status ELSE 0,
              etag |-> responded /\ r.etag,
              body |-> IF responded THEN r.body ELSE "",
              resolved |-> IF responded THEN key ELSE "",
              network |-> IF tokenError \/ hit THEN 0 ELSE 1,
              delayed |-> slept,
              hadEntry |-> e.present, entryStored |-> e.stored,
              entryExpires |-> e.expires,
              sent |-> ~tokenError, refreshed |-> refreshed,
              tokenUsed |-> IF tokenError THEN 0 ELSE token'.id,
              tokenOnDisk |-> IF tokenError THEN 0 ELSE auth_file'.id,
              prev |-> prev[url]]
  /\ UNCHANGED <<credentials_file, clock, pc, builds, options, credentials,
                 auth_token_dict, error, steps>>

Next ==
  \/ \E id \in Ids, secret \in Secrets : EditCredentials(id, secret)
  \/ \E d \in Jumps : Tick(d)
  \/ Exit
  \/ \E kw \in Kwargs : Construct(kw)
  \/ \E codeOk \in BOOLEAN : LoadAuthorization(codeOk)
  \/ LoadSession
  \/ \E url \in URLs, refreshOk \in BOOLEAN, net \in NetOutcomes :
       Get(url, refreshOk, net)

Spec == Init /\ [][Next]_vars

(* ============================ properties =============================== *)
Returned == last.kind = "get" /\ last.outcome = "returned"
Raised == last.kind = "get" /\ last.outcome # "returned"

\* the last get(url) came less than cache_expire_hours after a get(url) of
\* this session that fetched a response and returned its body
WithinWindow ==
  /\ last.kind = "get"
  /\ last.prev.set
  /\ last.at - last.prev.at < cache_expire_hours

\* C1 as stated: a second get(url) within the expiry window returns
\* from_cache = true and the body the first get(url) returned.
C1_SecondCallIsCacheHit ==
  WithinWindow /\ last.outcome # "TokenError" =>
    Returned /\ last.from_cache /\ last.body = last.prev.body

\* C1 as amended: when the first get(url) returned the body of a response the
\* cache stored (one of a cacheable status), a second get(url) within the
\* expiry window that gets past the token refresh returns from_cache = true
\* and the same body.
C1_StoredResponseIsCacheHit ==
  WithinWindow /\ last.prev.stored /\ last.outcome # "TokenError" =>
    Returned /\ last.from_cache /\ last.body = last.prev.body

C1_Witness ==
  /\ WithinWindow /\ last.prev.stored
  /\ last.at > last.prev.at
  /\ Returned /\ last.from_cache /\ last.body = "b2"

C3_DelayAfterEveryNetworkResponse ==
  request_delay > 0 => delays = fetched

\* C4 as stated: a session constructed with request_delay = 0 never delays.
C4_NoDelayWhenConfiguredZero ==
  pc = "ready" /\ kwargs.request_delay = 0 /\ last.kind = "get"
    => ~last.delayed

C6_EtagFailsAssertion ==
  last.kind = "get" /\ last.responded /\ last.etag
    => last.outcome = "AssertionError"

C6_Witness ==
  /\ last.kind = "get" /\ last.responded /\ last.etag /\ last.from_cache
  /\ last.outcome = "AssertionError"

\* C7: a construction that finds no credentials file fails with an error,
\* leaves the template file behind and has done nothing else: no token is
\* loaded or requested, no session is created, the cache is untouched.
C7_MissingCredentialsFile ==
  [][pc = "none" /\ pc' # "none" /\ ~credentials_file.exists
       => /\ pc' = "failed" /\ error' = "Exception"
          /\ credentials_file' = TemplateCredentials
          /\ steps' = <<"load_credentials">>
          /\ auth_file' = auth_file /\ web_cache' = web_cache
          /\ issued' = issued /\ credUse' = credUse
          /\ token' = NoToken /\ auth_token_dict' = NoToken]_vars

C7_Witness ==
  /\ pc = "failed" /\ error = "Exception"
  /\ credentials_file = TemplateCredentials
  /\ steps = <<"load_credentials">>

\* C8: the credentials are never used while empty, and a construction that
\* reads an empty id or an empty secret fails before using them.
C8_CredentialsNonEmptyWhenUsed ==
  /\ \A u \in credUse : u.id # "" /\ u.secret # ""
  /\ pc \in {"credentials", "authorization", "ready"}
       => client_id # "" /\ client_secret # ""
  /\ pc = "failed" /\ error = "AssertionError"
       => steps = <<"load_credentials">>
  /\ pc = "failed" /\ steps = <<"load_credentials">>
       => error \in {"Exception", "AssertionError"}

C8_Witness ==
  /\ pc = "failed" /\ error = "AssertionError"
  /\ client_id = "id" /\ credentials_file.client_secret = ""
  /\ builds > 1

\* C9: whenever a request is authenticated with a token, the authorization
\* file holds that same token, from construction on and across refreshes.
C9_TokenWriteThrough ==
  /\ pc = "ready" => token = auth_file
  /\ last.kind = "get" /\ last.sent => last.tokenUsed = last.tokenOnDisk

C9_Witness ==
  /\ last.kind = "get" /\ last.sent /\ last.refreshed
  /\ last.tokenUsed = last.tokenOnDisk /\ last.tokenUsed > 1

\* C10 as stated: urls is exactly the sequence of the resolved URLs of the
\* responses the get() calls of the session obtained, failed calls included.
C10_UrlsRecordEveryResponse ==
  pc = "ready" => urls = obtained

====
